---- MODULE Spec2Model ----
(***************************************************************************)
(* One-way sync of roadmap feature files into the two Notion databases     *)
(* (sync-to-notion.js).  The model covers a sequence of sync runs          *)
(* (syncToNotion), the local file tree and the mapping file between runs,  *)
(* and the remote pages with the calls issued against them.                *)
(***************************************************************************)
EXTENDS Integers, Sequences, FiniteSets, TLC

(***************************************************************************)
(* Bounds of the model.                                                    *)
(***************************************************************************)
MaxPages  == 4   \* remote page ids that can be allocated
MaxFaults == 1   \* remote calls that fail although their target exists
MaxEnv    == 1   \* changes made between runs (local edits, remote edits)
MaxRuns   == 2   \* runs of the sync script
MaxDepth  == 2   \* folders between roadmap/ and a file, where paths are enumerated

(***************************************************************************)
(* Values.                                                                 *)
(***************************************************************************)
NoId   == 0      \* null / undefined page id (falsy in the code)
NoHash == <<>>   \* undefined entry of contentHashes
HashDigits == 8  \* hex digits kept of the digest

ProjectName == "rss-gen"
ProjectKey  == <<>>        \* key under which calls on the project page are logged

Titles == {"", "Export", "Import"}   \* "" : no "# Feature:" line in the file
TitleCode == [t \in Titles |-> IF t = "" THEN 0 ELSE IF t = "Export" THEN 1 ELSE 2]

Paths == { <<"roadmap", "backlog", "001.md">>,
           <<"roadmap", "completed", "001.md">>,
           <<"roadmap", "planned", "002.md">> }

\* the paths a file can be at when the first run starts
InitialPaths == { <<"roadmap", "backlog", "001.md">>, <<"roadmap", "planned", "002.md">> }

Bodies == {"v1", "v2"}
BodyCode == [b \in Bodies |-> IF b = "v1" THEN 1 ELSE 2]

\* the file contents the tree can hold: a titled file in two versions, another
\* titled file, a file without a title line
Contents == { c \in [title : Titles, body : Bodies] : c.body = "v2" => c.title = "Export" }

\* the content each path starts with, when the file is there at the start
InitialContent(p) ==
    [ title |-> IF p[3] = "001.md" THEN "Export" ELSE "Import", body |-> "v1" ]

PageIds == 1..MaxPages

\* CONFIG.statusFolders, in key order
statusFolders == << [folder |-> "backlog",     status |-> "Backlog"],
                    [folder |-> "planned",     status |-> "Planned"],
                    [folder |-> "in-progress", status |-> "In Progress"],
                    [folder |-> "completed",   status |-> "Completed"] >>

\* CONFIG.statusOrder
statusOrder == << "In Progress", "Planned", "Backlog", "Completed" >>

Statuses == { statusOrder[i] : i \in 1..Len(statusOrder) }

\* collation rank of the path components that occur (String.localeCompare)
NameRank(s) ==
    CASE s = "001.md"      -> 1
      [] s = "002.md"      -> 2
      [] s = "backlog"     -> 3
      [] s = "completed"   -> 4
      [] s = "in-progress" -> 5
      [] s = "planned"     -> 6
      [] s = "roadmap"     -> 7
      [] OTHER             -> 8

Min(S) == CHOOSE x \in S : \A y \in S : x <= y

Lookup(f, k, dflt) == IF k \in DOMAIN f THEN f[k] ELSE dflt

Put(f, k, v) == (k :> v) @@ f

Without(f, K) == [k \in DOMAIN f \ K |-> f[k]]

(***************************************************************************)
(* generateHash: a deterministic digest of the file content, cut to        *)
(* 8 hex digits.                                                           *)
(***************************************************************************)
ContentCode(content) ==
    TitleCode[content.title] * 7919 + BodyCode[content.body] * 104729 + 5

generateHash(content) ==
    [ i \in 1..HashDigits |-> (ContentCode(content) \div 16 ^ (HashDigits - i)) % 16 ]

(***************************************************************************)
(* parseFeatureFile: the status comes from the first folder of             *)
(* statusFolders that occurs among the path parts, Backlog otherwise.      *)
(***************************************************************************)
\* (faulty variant of StatusOfPath: the last matching folder of statusFolders
\* decides)
StatusOfPathLastWins(filePath) ==
    LET hits == { i \in 1..Len(statusFolders) :
                    \E j \in 1..Len(filePath) : filePath[j] = statusFolders[i].folder }
    IN  IF hits = {} THEN "Backlog"
        ELSE statusFolders[CHOOSE i \in hits : \A j \in hits : j <= i].status

StatusOfPath(filePath) ==
    LET hits == { i \in 1..Len(statusFolders) :
                    \E j \in 1..Len(filePath) : filePath[j] = statusFolders[i].folder }
    IN  IF hits = {} THEN "Backlog" ELSE statusFolders[Min(hits)].status

\* the "**Priority:**" / "**Complexity:**" line of the content, "" (null)
\* when there is none: version v1 of the Export file has a Priority line,
\* version v2 has a Complexity line instead, the other files have neither
PriorityOf(content) ==
    IF content.title = "Export" /\ content.body = "v1" THEN "High" ELSE ""

ComplexityOf(content) ==
    IF content.title = "Export" /\ content.body = "v2" THEN "Medium" ELSE ""

parseFeatureFile(content, filePath) ==
    [ title    |-> content.title,
      priority   |-> PriorityOf(content),
      complexity |-> ComplexityOf(content),
      status   |-> StatusOfPath(filePath),
      filePath |-> filePath,
      body     |-> content.body,
      hash     |-> generateHash(content) ]

(***************************************************************************)
(* scanRoadmapFeatures: the files with a title, sorted by status rank and  *)
(* then by path.                                                           *)
(***************************************************************************)
StatusRank(s) == Min({ i \in 1..Len(statusOrder) : statusOrder[i] = s })

RECURSIVE PathLess(_, _)
PathLess(p, q) ==
    IF p = <<>> THEN q # <<>>
    ELSE IF q = <<>> THEN FALSE
    ELSE IF NameRank(Head(p)) # NameRank(Head(q))
         THEN NameRank(Head(p)) < NameRank(Head(q))
         ELSE PathLess(Tail(p), Tail(q))

FeatureBefore(a, b) ==
    IF StatusRank(a.status) # StatusRank(b.status)
    THEN StatusRank(a.status) < StatusRank(b.status)
    ELSE PathLess(a.filePath, b.filePath)

RECURSIVE SortFeatures(_)
SortFeatures(S) ==
    IF S = {} THEN <<>>
    ELSE LET first == CHOOSE a \in S : \A b \in S \ {a} : FeatureBefore(a, b)
         IN  <<first>> \o SortFeatures(S \ {first})

scanRoadmapFeatures(tree) ==
    SortFeatures({ f \in { parseFeatureFile(tree[p], p) : p \in DOMAIN tree } :
                     f.title # "" })

RECURSIVE SortPaths(_)
SortPaths(S) ==
    IF S = {} THEN <<>>
    ELSE LET first == CHOOSE a \in S : \A b \in S \ {a} : PathLess(a, b)
         IN  <<first>> \o SortPaths(S \ {first})

(***************************************************************************)
(* The mapping file: loadMapping / saveMapping.                            *)
(***************************************************************************)
\* tables: which of the two tables the object has (a table the file lacks is
\* undefined after JSON.parse)
TableNames == {"featurePageIds", "contentHashes"}

EmptyMapping ==
    [ projectPageId  |-> NoId,
      lastSync       |-> 0,
      featurePageIds |-> <<>>,
      contentHashes  |-> <<>>,
      tables         |-> TableNames ]

\* The file is absent, or holds text that JSON.parse rejects ("garbage"), or
\* holds a JSON object, written here as the sequence of its members
\* <<name, value>>; a table is the sequence of its <<path, value>> entries.
AbsentFile  == [kind |-> "absent",  text |-> <<>>]
GarbageFile == [kind |-> "garbage", text |-> <<>>]

Member(text, name, dflt) ==
    LET at == { i \in 1..Len(text) : text[i][1] = name }
    IN  IF at = {} THEN dflt ELSE text[Min(at)][2]

HasMember(text, name) == \E i \in 1..Len(text) : text[i][1] = name

\* the object a sequence of entries denotes (of two entries with the same
\* name the later one counts)
ObjectOf(entries) ==
    LET names == { entries[i][1] : i \in 1..Len(entries) }
        last(n) == CHOOSE i \in 1..Len(entries) :
                      /\ entries[i][1] = n
                      /\ \A j \in 1..Len(entries) : entries[j][1] = n => j <= i
    IN  [ n \in names |-> entries[last(n)][2] ]

\* the entries JSON.stringify writes for a table
EntriesOf(table) ==
    LET order == SortPaths(DOMAIN table)
    IN  [ i \in 1..Len(order) |-> << order[i], table[order[i]] >> ]

\* (faulty variant of JSONstringify: the contentHashes table is not written)
JSONstringifyWithoutHashes(m) ==
    << <<"projectPageId", m.projectPageId>>, <<"lastSync", m.lastSync>> >>
    \o (IF "featurePageIds" \in m.tables
        THEN << <<"featurePageIds", EntriesOf(m.featurePageIds)>> >> ELSE <<>>)

\* JSON.stringify(mapping, null, 2): a property whose value is undefined is
\* left out
JSONstringify(m) ==
    << <<"projectPageId", m.projectPageId>>, <<"lastSync", m.lastSync>> >>
    \o (IF "featurePageIds" \in m.tables
        THEN << <<"featurePageIds", EntriesOf(m.featurePageIds)>> >> ELSE <<>>)
    \o (IF "contentHashes" \in m.tables
        THEN << <<"contentHashes", EntriesOf(m.contentHashes)>> >> ELSE <<>>)

\* JSON.parse(data): the object as the text has it, nothing filled in
JSONparse(text) ==
    [ projectPageId  |-> Member(text, "projectPageId", NoId),
      lastSync       |-> Member(text, "lastSync", 0),
      featurePageIds |-> ObjectOf(Member(text, "featurePageIds", <<>>)),
      contentHashes  |-> ObjectOf(Member(text, "contentHashes", <<>>)),
      tables         |-> { n \in TableNames : HasMember(text, n) } ]

\* try { return JSON.parse(readFile) } catch { return the empty state }
loadMapping(file) ==
    IF file.kind = "json" THEN JSONparse(file.text) ELSE EmptyMapping

saveMapping(m) == [kind |-> "json", text |-> JSONstringify(m)]

(***************************************************************************)
(* The remote side: pages of the Projects and Features databases.          *)
(* A page is "free" (id not allocated yet), "live", or "gone" (deleted on  *)
(* the remote side: every call on it fails).  key is the file path written *)
(* into the page's source footer.                                          *)
(***************************************************************************)
FreePage ==
    [ st |-> "free", kind |-> "none", archived |-> FALSE, title |-> "",
      status |-> "", project |-> NoId, blocks |-> <<>>, key |-> <<>>,
      priority |-> "", complexity |-> "" ]

FreeId(pgs) ==
    LET free == { i \in PageIds : pgs[i].st = "free" }
    IN  IF free = {} THEN NoId ELSE Min(free)

\* one remote call as it is logged: the operation, its target, the record it
\* was issued for, whether it succeeded
\* (dup: a pages.create issued while a page with the record's title already
\* existed under the group; props, rel: the names of the properties a create
\* or update of a feature page sends, and the page id of its Project relation)
Call(op, id, key, ok) ==
    [ op |-> op, id |-> id, key |-> key, ok |-> ok, dup |-> FALSE,
      props |-> {}, rel |-> NoId ]

\* a call on page id at fault point pt succeeds when the page is there and no
\* transient failure (F) hits the call
CallOk(pgs, id, pt, F) == id \in PageIds /\ pgs[id].st = "live" /\ pt \notin F

FeatureFaultPoints == {"retrieve", "update", "list", "delete", "append", "create"}
ProjectFaultPoints == {"retrieve", "query", "update", "create"}

(***************************************************************************)
(* findProjectPage / findFeaturePage: the ids a database query returns     *)
(* (archived pages are not returned).  The code takes results[0].          *)
(***************************************************************************)
ProjectMatches(pgs, projectName) ==
    { i \in PageIds : /\ pgs[i].st = "live" /\ ~pgs[i].archived
                      /\ pgs[i].kind = "project" /\ pgs[i].title = projectName }

FeatureMatches(pgs, featureTitle, projectPageId) ==
    { i \in PageIds : /\ pgs[i].st = "live" /\ ~pgs[i].archived
                      /\ pgs[i].kind = "feature" /\ pgs[i].title = featureTitle
                      /\ pgs[i].project = projectPageId }

findProjectPage(pgs, projectName, queryOk, pick) ==
    IF queryOk /\ ProjectMatches(pgs, projectName) # {} THEN pick ELSE NoId

findFeaturePage(pgs, featureTitle, projectPageId, queryOk, pick) ==
    IF queryOk /\ FeatureMatches(pgs, featureTitle, projectPageId) # {} THEN pick ELSE NoId

(***************************************************************************)
(* syncFeature(feature, projectPageId, mapping) against the pages pgs,     *)
(* with the calls at the fault points F failing.  newId is the id a        *)
(* successful pages.create returns.                                        *)
(***************************************************************************)
RenderChildren(feature) == << [src |-> feature.filePath, h |-> feature.hash] >>

\* (faulty variant of BuildProperties: Priority and Complexity are always sent)
BuildPropertiesAlways(feature, projectPageId) ==
    [ Name |-> feature.title, Status |-> feature.status, Project |-> projectPageId,
      Priority |-> feature.priority, Complexity |-> feature.complexity ]

\* "Build properties": Name, Status, Project; Priority and Complexity "if exists"
BuildProperties(feature, projectPageId) ==
    [ Name |-> feature.title, Status |-> feature.status, Project |-> projectPageId ]
    @@ (IF feature.priority # "" THEN [Priority |-> feature.priority] ELSE <<>>)
    @@ (IF feature.complexity # "" THEN [Complexity |-> feature.complexity] ELSE <<>>)

\* pages.update changes the properties that are sent and no other
PatchPage(pg, properties) ==
    [ pg EXCEPT !.title = properties.Name, !.status = properties.Status,
                !.project = properties.Project,
                !.priority = Lookup(properties, "Priority", @),
                !.complexity = Lookup(properties, "Complexity", @) ]

NewFeaturePage(properties, children, key) ==
    [ st |-> "live", kind |-> "feature", archived |-> FALSE,
      title |-> properties.Name, status |-> properties.Status,
      project |-> properties.Project, blocks |-> children, key |-> key,
      priority |-> Lookup(properties, "Priority", ""),
      complexity |-> Lookup(properties, "Complexity", "") ]

\* a logged call that carries the property set
WithProperties(call, properties) ==
    [ call EXCEPT !.props = DOMAIN properties, !.rel = properties.Project ]

\* (faulty variant of SkipCandidate: the fast path is never taken)
SkipCandidateNever(existingPageId, existingHash, feature) == FALSE

\* (faulty variant of SkipCandidate: the hash comparison inverted)
SkipCandidateInverted(existingPageId, existingHash, feature) ==
    existingPageId # NoId /\ existingHash # feature.hash

\* "Skip if unchanged": the condition of the fast path
SkipCandidate(existingPageId, existingHash, feature) ==
    existingPageId # NoId /\ existingHash = feature.hash

syncFeature(feature, projectPageId, mp, pgs, F, newId) ==
    LET key == feature.filePath
        existingPageId == Lookup(mp.featurePageIds, key, NoId)
        existingHash   == Lookup(mp.contentHashes, key, NoHash)
        \* reading an entry of a table the mapping object lacks throws
        typeError == mp.tables # TableNames
        \* Skip if unchanged, still verify the page exists
        probe    == ~typeError /\ SkipCandidate(existingPageId, existingHash, feature)
        probeOk  == probe /\ CallOk(pgs, existingPageId, "retrieve", F)
        cProbe   == IF probe THEN << Call("pages.retrieve", existingPageId, key, probeOk) >>
                    ELSE <<>>
        properties == BuildProperties(feature, projectPageId)
        children   == RenderChildren(feature)
        \* Update existing page
        tryUpd == ~typeError /\ ~probeOk /\ existingPageId # NoId
        updOk  == tryUpd /\ CallOk(pgs, existingPageId, "update", F)
        pgs1   == IF updOk THEN [pgs EXCEPT ![existingPageId] = PatchPage(@, properties)]
                  ELSE pgs
        cUpd   == IF tryUpd
                  THEN << WithProperties(Call("pages.update", existingPageId, key, updOk),
                                         properties) >>
                  ELSE <<>>
        listOk == updOk /\ CallOk(pgs1, existingPageId, "list", F)
        cList  == IF updOk THEN << Call("blocks.children.list", existingPageId, key, listOk) >>
                  ELSE <<>>
        old    == IF listOk THEN pgs1[existingPageId].blocks ELSE <<>>
        delOk  == "delete" \notin F
        cDel   == [ i \in 1..Len(old) |-> Call("blocks.delete", existingPageId, key, delOk) ]
        pgs2   == IF listOk /\ delOk THEN [pgs1 EXCEPT ![existingPageId].blocks = <<>>]
                  ELSE pgs1
        appOk  == listOk /\ CallOk(pgs2, existingPageId, "append", F)
        cApp   == IF listOk
                  THEN << Call("blocks.children.append", existingPageId, key, appOk) >>
                  ELSE <<>>
        pgs3   == IF appOk THEN [pgs2 EXCEPT ![existingPageId].blocks = @ \o children]
                  ELSE pgs2
        updated == appOk
        \* Create new page
        tryCreate == ~typeError /\ ~probeOk /\ ~updated
        createOk  == tryCreate /\ "create" \notin F
        dup       == FeatureMatches(pgs3, feature.title, projectPageId) # {}
        cCreate   == IF tryCreate
                     THEN << [ WithProperties(
                                   Call("pages.create", IF createOk THEN newId ELSE NoId,
                                        key, createOk), properties)
                               EXCEPT !.dup = dup ] >>
                     ELSE <<>>
        pgs4   == IF createOk /\ newId # NoId
                  THEN [pgs3 EXCEPT ![newId] = NewFeaturePage(properties, children, key)]
                  ELSE pgs3
    IN  [ pages    |-> pgs4,
          calls    |-> cProbe \o cUpd \o cList \o cDel \o cApp \o cCreate,
          threw    |-> typeError \/ (tryCreate /\ ~createOk),
          pageId   |-> IF probeOk \/ updated THEN existingPageId
                       ELSE IF createOk THEN newId ELSE NoId,
          action   |-> IF probeOk THEN "unchanged"
                       ELSE IF updated THEN "updated"
                       ELSE IF createOk THEN "created" ELSE "threw",
          fired    |-> { pt \in F :
                          \/ pt = "retrieve" /\ probe
                          \/ pt = "update"   /\ tryUpd
                          \/ pt = "list"     /\ updOk
                          \/ pt = "delete"   /\ Len(old) > 0
                          \/ pt = "append"   /\ listOk
                          \/ pt = "create"   /\ tryCreate },
          overflow |-> createOk /\ newId = NoId ]

(***************************************************************************)
(* syncProject(projectName, readme, featureCount, mapping): verify the     *)
(* persisted id, search by name if needed, then update or create.          *)
(***************************************************************************)
NewProjectPage(projectName) ==
    [ st |-> "live", kind |-> "project", archived |-> FALSE, title |-> projectName,
      status |-> "", project |-> NoId, blocks |-> <<>>, key |-> ProjectKey,
      priority |-> "", complexity |-> "" ]

\* (faulty variant of NeedsSearch: the search is made in any case)
NeedsSearchAlways(pageId) == TRUE

\* "Search by name if needed": if (!pageId)
NeedsSearch(pageId) == pageId = NoId

\* the databases.query call is logged with the id the search returned
syncProject(projectName, mp, pgs, F, pick, newId) ==
    LET pageId0  == mp.projectPageId
        probe    == pageId0 # NoId
        probeOk  == probe /\ CallOk(pgs, pageId0, "retrieve", F)
        cProbe   == IF probe THEN << Call("pages.retrieve", pageId0, ProjectKey, probeOk) >>
                    ELSE <<>>
        verified == IF probeOk THEN pageId0 ELSE NoId
        search   == NeedsSearch(verified)
        queryOk  == search /\ "query" \notin F
        found    == findProjectPage(pgs, projectName, queryOk, pick)
        cQuery   == IF search THEN << Call("databases.query", found, ProjectKey, queryOk) >>
                    ELSE <<>>
        pageId   == IF search THEN found ELSE verified
        tryUpd   == pageId # NoId
        updOk    == tryUpd /\ CallOk(pgs, pageId, "update", F)
        cUpd     == IF tryUpd THEN << Call("pages.update", pageId, ProjectKey, updOk) >>
                    ELSE <<>>
        tryCreate == pageId = NoId
        createOk  == tryCreate /\ "create" \notin F
        cCreate   == IF tryCreate
                     THEN << Call("pages.create", IF createOk THEN newId ELSE NoId,
                                  ProjectKey, createOk) >>
                     ELSE <<>>
        pgs1 == IF updOk THEN [pgs EXCEPT ![pageId].title = projectName]
                ELSE IF createOk /\ newId # NoId
                     THEN [pgs EXCEPT ![newId] = NewProjectPage(projectName)]
                     ELSE pgs
    IN  [ pages    |-> pgs1,
          calls    |-> cProbe \o cQuery \o cUpd \o cCreate,
          threw    |-> (tryUpd /\ ~updOk) \/ (tryCreate /\ ~createOk),
          pageId   |-> IF updOk THEN pageId ELSE IF createOk THEN newId ELSE NoId,
          action   |-> IF updOk THEN "updated" ELSE IF createOk THEN "created" ELSE "threw",
          fired    |-> { pt \in F :
                          \/ pt = "retrieve" /\ probe
                          \/ pt = "query"    /\ search
                          \/ pt = "update"   /\ tryUpd
                          \/ pt = "create"   /\ tryCreate },
          overflow |-> createOk /\ newId = NoId ]

(***************************************************************************)
(* cleanupDeletedFeatures(currentFeatures, projectPageId, mapping): every  *)
(* entry of featurePageIds whose path is not in the scan is archived and   *)
(* dropped from both tables.  F: the paths whose archive call fails        *)
(* although the page is there.                                             *)
(***************************************************************************)
\* (faulty variant of DropEntry: only the featurePageIds entry is deleted)
DropEntryIdOnly(mp, filePath, ok) ==
    [ mp EXCEPT !.featurePageIds = Without(@, {filePath}) ]

\* (faulty variant of DropEntry: the entry is kept when the archive call fails)
DropEntryOnSuccessOnly(mp, filePath, ok) ==
    IF ok
    THEN [ mp EXCEPT !.featurePageIds = Without(@, {filePath}),
                     !.contentHashes  = Without(@, {filePath}) ]
    ELSE mp

\* the two delete statements after the archive call (try branch and catch branch)
DropEntry(mp, filePath, ok) ==
    [ mp EXCEPT !.featurePageIds = Without(@, {filePath}),
                !.contentHashes  = Without(@, {filePath}) ]

RECURSIVE DropEntries(_, _, _)
DropEntries(mp, order, okOf) ==
    IF order = <<>> THEN mp
    ELSE DropEntries(DropEntry(mp, Head(order), okOf[Head(order)]), Tail(order), okOf)

\* (faulty variant of RemovedPaths: the scan is not looked at)
RemovedPathsAll(currentFeatures, mp) == DOMAIN mp.featurePageIds

RemovedPaths(currentFeatures, mp) ==
    LET currentPaths == { currentFeatures[i].filePath : i \in 1..Len(currentFeatures) }
    IN  { k \in DOMAIN mp.featurePageIds : k \notin currentPaths }

cleanupDeletedFeatures(currentFeatures, mp, pgs, F) ==
    LET removed == RemovedPaths(currentFeatures, mp)
        all     == SortPaths(removed)
        \* Object.entries of an undefined table throws; so does the delete on
        \* an undefined contentHashes, in the try and again in the catch
        noIds    == "featurePageIds" \notin mp.tables
        noHashes == "contentHashes" \notin mp.tables /\ all # <<>>
        order   == IF noIds THEN <<>> ELSE IF noHashes THEN << all[1] >> ELSE all
        okOf    == [ k \in removed |-> CallOk(pgs, mp.featurePageIds[k], k, F) ]
        visited == { order[n] : n \in 1..Len(order) }
    IN  [ pages   |-> [ i \in PageIds |->
                          IF \E k \in visited : mp.featurePageIds[k] = i /\ okOf[k]
                          THEN [pgs[i] EXCEPT !.archived = TRUE] ELSE pgs[i] ],
          calls   |-> [ n \in 1..Len(order) |->
                          Call("pages.archive", mp.featurePageIds[order[n]], order[n],
                               okOf[order[n]]) ],
          mapping |-> IF noHashes
                      THEN [ mp EXCEPT !.featurePageIds = Without(@, visited) ]
                      ELSE DropEntries(mp, order, okOf),
          threw   |-> noIds \/ noHashes,
          archived |-> Cardinality({ k \in visited : okOf[k] }),
          fired   |-> F \cap visited ]

(***************************************************************************)
(* State.                                                                  *)
(***************************************************************************)
VARIABLES
    files,        \* the roadmap tree: path -> content of the feature files present
    mappingFile,  \* .notion-sync.json
    pages,        \* the remote pages, by id
    env,          \* process.env: which of the three settings are present
    pc,           \* "idle", "load", "project", "features", "save", "done"
    exitCode,     \* -1 while no run has ended, 0 / 1 after process exit
    mapping,      \* the in-memory mapping of the run
    loaded,       \* the mapping as loadMapping returned it
    features,     \* the scan of the run
    idx,          \* position of the feature loop
    results,      \* path -> result of syncFeature in this run
    log,          \* the remote calls of this run, in order
    io,           \* reads and writes of the mapping file in this run
    swept,        \* the deletion sweep of this run has run
    since,        \* what happened since the last run ended
    ctx,          \* since, and the remote pages, as they were when this run started
    runs, faults, envSteps

vars == << files, mappingFile, pages, env, pc, exitCode, mapping, loaded, features,
           idx, results, log, io, swept, since, ctx, runs, faults, envSteps >>

runVars == << mapping, loaded, features, idx, results, log, io, swept, ctx >>

Fresh == [ok |-> FALSE, moved |-> <<>>, dragged |-> {}]

\* the state before the first run, but for the mapping file
InitRest ==
    /\ files \in { [p \in D |-> InitialContent(p)] : D \in SUBSET InitialPaths }
    /\ pages = [i \in PageIds |-> FreePage]
    /\ env \in [NOTION_TOKEN : BOOLEAN, NOTION_PROJECTS_DB_ID : BOOLEAN,
                NOTION_FEATURES_DB_ID : BOOLEAN]
    /\ pc = "idle"
    /\ exitCode = -1
    /\ mapping = EmptyMapping
    /\ loaded = EmptyMapping
    /\ features = <<>>
    /\ idx = 1
    /\ results = <<>>
    /\ log = <<>>
    /\ io = [reads |-> 0, writes |-> 0]
    /\ swept = FALSE
    /\ since = Fresh
    /\ ctx = Fresh
    /\ runs = 0
    /\ faults = 0
    /\ envSteps = 0

\* a fresh checkout: no mapping file yet
Init == mappingFile = AbsentFile /\ InitRest

Idle == pc \in {"idle", "done"}

(***************************************************************************)
(* Between runs: the developer edits, moves and deletes feature files, the *)
(* mapping file gets lost (it is git-ignored), and Notion users delete     *)
(* pages or drag cards to another status column.                           *)
(***************************************************************************)
EditFile(p, c) ==
    /\ Idle /\ envSteps < MaxEnv
    /\ p \in DOMAIN files => files[p] # c
    /\ files' = Put(files, p, c)
    /\ since' = [since EXCEPT !.ok = FALSE, !.moved = <<>>]
    /\ pc' = "idle" /\ envSteps' = envSteps + 1
    /\ UNCHANGED << mappingFile, pages, env, exitCode, runVars, runs, faults >>

MoveFile(p, q) ==
    /\ Idle /\ envSteps < MaxEnv
    /\ p \in DOMAIN files /\ q \notin DOMAIN files
    /\ files' = Put(Without(files, {p}), q, files[p])
    /\ since' = [since EXCEPT
                   !.ok = FALSE,
                   !.moved = IF since.ok /\ p \in DOMAIN loadMapping(mappingFile).featurePageIds
                             THEN <<p, q>> ELSE <<>>]
    /\ pc' = "idle" /\ envSteps' = envSteps + 1
    /\ UNCHANGED << mappingFile, pages, env, exitCode, runVars, runs, faults >>

DeleteFile(p) ==
    /\ Idle /\ envSteps < MaxEnv
    /\ p \in DOMAIN files
    /\ files' = Without(files, {p})
    /\ since' = [since EXCEPT !.ok = FALSE, !.moved = <<>>]
    /\ pc' = "idle" /\ envSteps' = envSteps + 1
    /\ UNCHANGED << mappingFile, pages, env, exitCode, runVars, runs, faults >>

LoseMapping ==
    /\ Idle /\ envSteps < MaxEnv
    /\ mappingFile.kind = "json"
    /\ mappingFile' = AbsentFile
    /\ since' = [since EXCEPT !.ok = FALSE, !.moved = <<>>]
    /\ pc' = "idle" /\ envSteps' = envSteps + 1
    /\ UNCHANGED << files, pages, env, exitCode, runVars, runs, faults >>

RemoteDelete(id) ==
    /\ Idle /\ envSteps < MaxEnv
    /\ pages[id].st = "live"
    /\ pages' = [pages EXCEPT ![id].st = "gone"]
    /\ since' = [since EXCEPT !.ok = FALSE, !.moved = <<>>]
    /\ pc' = "idle" /\ envSteps' = envSteps + 1
    /\ UNCHANGED << files, mappingFile, env, exitCode, runVars, runs, faults >>

RemoteSetStatus(id, s) ==
    /\ Idle /\ envSteps < MaxEnv
    /\ pages[id].st = "live" /\ pages[id].kind = "feature" /\ ~pages[id].archived
    /\ pages[id].status # s
    /\ pages' = [pages EXCEPT ![id].status = s]
    /\ since' = [since EXCEPT !.dragged = @ \cup {id}]
    /\ pc' = "idle" /\ envSteps' = envSteps + 1
    /\ UNCHANGED << files, mappingFile, env, exitCode, runVars, runs, faults >>

(***************************************************************************)
(* syncToNotion, step by step.                                             *)
(***************************************************************************)
\* (faulty variant of ValidateEnvironment: the third check is missing)
ValidateEnvironmentTwoChecks(e) ==
    e.NOTION_TOKEN /\ e.NOTION_PROJECTS_DB_ID

\* "Validate environment": the three checks, each ending in process.exit(1)
ValidateEnvironment(e) ==
    e.NOTION_TOKEN /\ e.NOTION_PROJECTS_DB_ID /\ e.NOTION_FEATURES_DB_ID

StartRun ==
    /\ Idle /\ runs < MaxRuns
    /\ runs' = runs + 1
    /\ ctx' = since @@ [pages |-> pages]
    /\ mapping' = EmptyMapping /\ loaded' = EmptyMapping
    /\ features' = <<>> /\ idx' = 1 /\ results' = <<>> /\ log' = <<>>
    /\ io' = [reads |-> 0, writes |-> 0]
    /\ swept' = FALSE
    /\ IF ValidateEnvironment(env)
       THEN pc' = "load" /\ exitCode' = -1 /\ since' = since
       ELSE pc' = "done" /\ exitCode' = 1 /\ since' = Fresh
    /\ UNCHANGED << files, mappingFile, pages, env, faults, envSteps >>

\* loadMapping, getProjectName, readReadme, scanRoadmapFeatures
LoadAndScan ==
    /\ pc = "load"
    /\ mapping' = loadMapping(mappingFile)
    /\ loaded' = mapping'
    /\ features' = scanRoadmapFeatures(files)
    /\ io' = [io EXCEPT !.reads = @ + 1]
    /\ pc' = "project"
    /\ UNCHANGED << files, mappingFile, pages, env, exitCode, idx, results, log, swept,
                    since, ctx, runs, faults, envSteps >>

\* the catch of syncToNotion: "Sync failed", process.exit(1)
Fail ==
    /\ pc' = "done" /\ exitCode' = 1 /\ since' = Fresh

SyncProject ==
    /\ pc = "project"
    /\ \E F \in SUBSET ProjectFaultPoints, pick \in PageIds \cup {NoId} :
        LET r == syncProject(ProjectName, mapping, pages, F, pick, FreeId(pages)) IN
        /\ pick \in ProjectMatches(pages, ProjectName)
             \/ (pick = NoId /\ ProjectMatches(pages, ProjectName) = {})
        /\ faults + Cardinality(F) <= MaxFaults
        /\ r.fired = F
        /\ ~r.overflow
        /\ pages' = r.pages
        /\ log' = log \o r.calls
        /\ faults' = faults + Cardinality(F)
        /\ IF r.threw
           THEN Fail /\ mapping' = mapping
           ELSE /\ mapping' = [mapping EXCEPT !.projectPageId = r.pageId]
                /\ pc' = "features" /\ exitCode' = exitCode /\ since' = since
    /\ UNCHANGED << files, mappingFile, env, loaded, features, idx, results, io, swept,
                    ctx, runs, envSteps >>

\* (faulty variant of RecordResult: an id the mapping already has is kept)
RecordResultKeepsId(mp, feature, pageId) ==
    [ mp EXCEPT !.featurePageIds =
                    IF feature.filePath \in DOMAIN @ THEN @
                    ELSE Put(@, feature.filePath, pageId),
                !.contentHashes  = Put(@, feature.filePath, feature.hash) ]

\* (faulty variant of RecordResult: the content hash is not stored)
RecordResultWithoutHash(mp, feature, pageId) ==
    [ mp EXCEPT !.featurePageIds = Put(@, feature.filePath, pageId) ]

\* the two assignments of the loop body after syncFeature returned
RecordResult(mp, feature, pageId) ==
    [ mp EXCEPT !.featurePageIds = Put(@, feature.filePath, pageId),
                !.contentHashes  = Put(@, feature.filePath, feature.hash) ]

\* one iteration of "for (const feature of features)"
SyncFeature ==
    /\ pc = "features" /\ idx <= Len(features)
    /\ \E F \in SUBSET FeatureFaultPoints :
        LET feature == features[idx]
            r == syncFeature(feature, mapping.projectPageId, mapping, pages, F,
                             FreeId(pages)) IN
        /\ faults + Cardinality(F) <= MaxFaults
        /\ r.fired = F
        /\ ~r.overflow
        /\ pages' = r.pages
        /\ log' = log \o r.calls
        /\ faults' = faults + Cardinality(F)
        /\ IF r.threw
           THEN Fail /\ UNCHANGED << mapping, results, idx >>
           ELSE /\ mapping' = RecordResult(mapping, feature, r.pageId)
                /\ results' = Put(results, feature.filePath,
                                  [pageId |-> r.pageId, action |-> r.action])
                /\ idx' = idx + 1
                /\ UNCHANGED << pc, exitCode, since >>
    /\ UNCHANGED << files, mappingFile, env, loaded, features, io, swept, ctx, runs,
                    envSteps >>

\* (faulty variant of LoopDone: the sweep does not wait for the loop)
LoopDoneEarly(i, scanned) == TRUE

\* "for (const feature of features)" has gone through the scan
LoopDone(i, scanned) == i > Len(scanned)

\* "Cleanup deleted features", after the loop
Cleanup ==
    /\ pc = "features" /\ LoopDone(idx, features)
    /\ \E F \in SUBSET RemovedPaths(features, mapping) :
        LET r == cleanupDeletedFeatures(features, mapping, pages, F) IN
        /\ faults + Cardinality(F) <= MaxFaults
        /\ r.fired = F
        /\ pages' = r.pages
        /\ log' = log \o r.calls
        /\ mapping' = r.mapping
        /\ faults' = faults + Cardinality(F)
        /\ IF r.threw
           THEN Fail /\ swept' = swept
           ELSE /\ swept' = TRUE
                /\ pc' = "save" /\ exitCode' = exitCode /\ since' = since
    /\ UNCHANGED << files, mappingFile, env, loaded, features, idx, results, io, ctx,
                    runs, envSteps >>

\* "Save mapping": lastSync is set, the file is written, the run ends
SaveMapping ==
    /\ pc = "save"
    /\ mapping' = [mapping EXCEPT !.lastSync = runs]
    /\ mappingFile' = saveMapping(mapping')
    /\ io' = [io EXCEPT !.writes = @ + 1]
    /\ pc' = "done" /\ exitCode' = 0
    /\ since' = [ok |-> TRUE, moved |-> <<>>, dragged |-> {}]
    /\ UNCHANGED << files, pages, env, loaded, features, idx, results, log, swept, ctx,
                    runs, faults, envSteps >>

Next ==
    \/ \E p \in Paths, c \in Contents : EditFile(p, c)
    \/ \E p \in Paths, q \in Paths : MoveFile(p, q)
    \/ \E p \in Paths : DeleteFile(p)
    \/ LoseMapping
    \/ \E id \in PageIds : RemoteDelete(id)
    \/ \E id \in PageIds, s \in Statuses : RemoteSetStatus(id, s)
    \/ StartRun
    \/ LoadAndScan
    \/ SyncProject
    \/ SyncFeature
    \/ Cleanup
    \/ SaveMapping

Spec == Init /\ [][Next]_vars

(***************************************************************************)
(* The same runs, started on whatever .notion-sync.json the checkout       *)
(* holds: no file, text that is not JSON, the object {}, an object         *)
(* without the contentHashes table, a complete empty state.                *)
(***************************************************************************)
FileContents ==
    { AbsentFile, GarbageFile,
      [kind |-> "json", text |-> <<>>],
      [kind |-> "json", text |-> << <<"projectPageId", NoId>>,
                                    <<"featurePageIds", <<>>>> >>],
      saveMapping(EmptyMapping) }

InitAnyFile == mappingFile \in FileContents /\ InitRest

SpecAnyFile == InitAnyFile /\ [][Next]_vars

(***************************************************************************)
(* The mapping store on its own: saveMapping(S) over whatever the file     *)
(* held, then loadMapping.  S ranges over the sync states with entries     *)
(* for the initial paths; the file held nothing, garbage, a partial        *)
(* object, or an earlier save.  ctx keeps what the file held before.       *)
(***************************************************************************)
StoreIds    == {1, 2}
StoreHashes == { generateHash(InitialContent(p)) : p \in InitialPaths }

TablesOver(V) == UNION { [D -> V] : D \in SUBSET InitialPaths }

SyncStates ==
    { [ projectPageId |-> g, lastSync |-> t, featurePageIds |-> ids,
        contentHashes |-> hs, tables |-> TableNames ] :
        g \in {NoId, 1}, t \in {0, 1},
        ids \in TablesOver(StoreIds), hs \in TablesOver(StoreHashes) }

EarlierSaves ==
    { saveMapping(S) : S \in { T \in SyncStates : T.projectPageId = 1 /\ T.lastSync = 1 } }

InitStore ==
    /\ mapping \in SyncStates
    /\ mappingFile \in FileContents \cup EarlierSaves
    /\ ctx = loadMapping(mappingFile)
    /\ loaded = EmptyMapping
    /\ pc = "save"
    /\ io = [reads |-> 0, writes |-> 0]
    /\ files = <<>>
    /\ pages = [i \in PageIds |-> FreePage]
    /\ env = [NOTION_TOKEN |-> TRUE, NOTION_PROJECTS_DB_ID |-> TRUE,
              NOTION_FEATURES_DB_ID |-> TRUE]
    /\ exitCode = -1
    /\ features = <<>> /\ idx = 1 /\ results = <<>> /\ log = <<>>
    /\ swept = FALSE /\ since = Fresh
    /\ runs = 0 /\ faults = 0 /\ envSteps = 0

StoreSave ==
    /\ pc = "save"
    /\ mappingFile' = saveMapping(mapping)
    /\ io' = [io EXCEPT !.writes = @ + 1]
    /\ pc' = "saved"
    /\ UNCHANGED << files, pages, env, exitCode, mapping, loaded, features, idx,
                    results, log, swept, since, ctx, runs, faults, envSteps >>

StoreLoad ==
    /\ pc = "saved"
    /\ loaded' = loadMapping(mappingFile)
    /\ io' = [io EXCEPT !.reads = @ + 1]
    /\ pc' = "reloaded"
    /\ UNCHANGED << files, mappingFile, pages, env, exitCode, mapping, features, idx,
                    results, log, swept, since, ctx, runs, faults, envSteps >>

NextStore == StoreSave \/ StoreLoad

SpecStore == InitStore /\ [][NextStore]_vars

(***************************************************************************)
(* parseFeatureFile on its own: one file somewhere below roadmap/, parsed, *)
(* rewritten with another content, parsed again.  features collects the    *)
(* parses.                                                                 *)
(***************************************************************************)
FolderNames == { statusFolders[i].folder : i \in 1..Len(statusFolders) } \cup {"ideas"}

RECURSIVE FolderSeqs(_)
FolderSeqs(n) ==
    IF n = 0 THEN { <<>> }
    ELSE FolderSeqs(n - 1)
         \cup { Append(d, f) : d \in { e \in FolderSeqs(n - 1) : Len(e) = n - 1 },
                               f \in FolderNames }

ParsePaths == { <<"roadmap">> \o d \o <<"001.md">> : d \in FolderSeqs(MaxDepth) }

InitParse ==
    /\ files \in { p :> c : p \in ParsePaths, c \in Contents }
    /\ features = <<>>
    /\ pc = "parse"
    /\ mappingFile = AbsentFile
    /\ mapping = EmptyMapping /\ loaded = EmptyMapping /\ ctx = Fresh
    /\ io = [reads |-> 0, writes |-> 0]
    /\ pages = [i \in PageIds |-> FreePage]
    /\ env = [NOTION_TOKEN |-> TRUE, NOTION_PROJECTS_DB_ID |-> TRUE,
              NOTION_FEATURES_DB_ID |-> TRUE]
    /\ exitCode = -1
    /\ idx = 1 /\ results = <<>> /\ log = <<>>
    /\ swept = FALSE /\ since = Fresh
    /\ runs = 0 /\ faults = 0 /\ envSteps = 0

ParseFile ==
    /\ pc = "parse"
    /\ \E p \in DOMAIN files :
         features' = Append(features, parseFeatureFile(files[p], p))
    /\ pc' = "parsed"
    /\ UNCHANGED << files, mappingFile, pages, env, exitCode, mapping, loaded, idx,
                    results, log, io, swept, since, ctx, runs, faults, envSteps >>

RewriteFile(c) ==
    /\ pc = "parsed" /\ Len(features) < 2
    /\ \E p \in DOMAIN files : files[p] # c /\ files' = p :> c
    /\ pc' = "parse"
    /\ UNCHANGED << mappingFile, pages, env, exitCode, mapping, loaded, features, idx,
                    results, log, io, swept, since, ctx, runs, faults, envSteps >>

NextParse == ParseFile \/ \E c \in Contents : RewriteFile(c)

SpecParse == InitParse /\ [][NextParse]_vars

(***************************************************************************)
(* Vocabulary of the properties.                                           *)
(***************************************************************************)
ScanKeys == { features[i].filePath : i \in 1..Len(features) }

LogIdx == 1..Len(log)

\* a create or update call issued for a feature record
FeatureWrite(c) == c.key # ProjectKey /\ c.op \in {"pages.update", "pages.create"}

\* a call that changes a remote feature record
FeatureMutation(c) ==
    c.key # ProjectKey /\ c.op \in { "pages.update", "pages.create", "blocks.delete",
                                    "blocks.children.append", "pages.archive" }

\* what the next loadMapping would return
Persisted == loadMapping(mappingFile)

NoCallFailed == \A i \in LogIdx : log[i].ok

AllResolved == \A k \in ScanKeys : k \in DOMAIN results

RunEnded == pc = "done"

RunSucceeded == pc = "done" /\ exitCode = 0

\* the non-archived remote feature records of the current group written for key k
LiveRecordsOf(k) ==
    { i \in PageIds : /\ pages[i].st = "live" /\ ~pages[i].archived
                      /\ pages[i].kind = "feature" /\ pages[i].key = k
                      /\ pages[i].project = mapping.projectPageId }

ProbeSucceeds(k) ==
    /\ pages[loaded.featurePageIds[k]].st = "live"
    /\ \A i \in LogIdx : (log[i].key = k /\ log[i].op = "pages.retrieve") => log[i].ok

FingerprintUnchanged(k) ==
    /\ k \in DOMAIN loaded.featurePageIds /\ loaded.featurePageIds[k] # NoId
    /\ k \in DOMAIN loaded.contentHashes
    /\ k \in DOMAIN files /\ loaded.contentHashes[k] = generateHash(files[k])

\* a run is under way or has just ended: nothing was changed since
InRun == pc # "idle"

\* C2: for every processed record with a persisted remote id, a persisted
\* fingerprint equal to the fresh one and a succeeding existence probe, no
\* mutation call is issued for it and syncFeature returns 'unchanged' with the
\* persisted id.
C2_UnchangedIssuesNoMutation ==
    \A k \in DOMAIN results :
        (InRun /\ FingerprintUnchanged(k) /\ ProbeSucceeds(k)) =>
            /\ \A i \in LogIdx : log[i].key = k => ~FeatureMutation(log[i])
            /\ \E i \in LogIdx : /\ log[i].key = k /\ log[i].op = "pages.retrieve"
                                 /\ log[i].id = loaded.featurePageIds[k]
            /\ results[k] = [pageId |-> loaded.featurePageIds[k], action |-> "unchanged"]

C2_Witness ==
    \E k \in DOMAIN results :
        /\ InRun /\ FingerprintUnchanged(k) /\ ProbeSucceeds(k)
        /\ results[k].action = "unchanged"
        /\ \E j \in DOMAIN results : results[j].action = "updated"

(***************************************************************************)
(* C3  The deletion sweep.                                                 *)
(***************************************************************************)
VanishedKeys == DOMAIN loaded.featurePageIds \ ScanKeys

ArchiveCallsFor(k) == { i \in LogIdx : log[i].op = "pages.archive" /\ log[i].key = k }

\* C3: once the sweep has run, every key of the loaded sync state that is not
\* in the scan has exactly one archive call, issued against its remembered
\* remote id, and is in neither table of the state that is persisted, whether
\* the archive call succeeded or failed.
C3_SweepArchivesAndForgets ==
    swept =>
        \A k \in VanishedKeys :
            /\ Cardinality(ArchiveCallsFor(k)) = 1
            /\ \A i \in ArchiveCallsFor(k) : log[i].id = loaded.featurePageIds[k]
            /\ k \notin DOMAIN mapping.featurePageIds
            /\ k \notin DOMAIN mapping.contentHashes
            /\ RunEnded => /\ mappingFile.kind = "json"
                           /\ k \notin DOMAIN Persisted.featurePageIds
                           /\ k \notin DOMAIN Persisted.contentHashes

C3_Witness ==
    /\ RunSucceeded /\ swept
    /\ \E k \in VanishedKeys : \E i \in ArchiveCallsFor(k) : ~log[i].ok

(***************************************************************************)
(* C4  A file moved to another status folder.                              *)
(***************************************************************************)
\* C4: after an already-synced file was moved to another status folder with
\* its content unchanged, the next run issues exactly one update call against
\* the record's existing remote id, which sets the new folder's status, and
\* no create call and no archive call for that record.
C4_MoveIsOneStatusUpdate ==
    (RunSucceeded /\ NoCallFailed /\ ctx.moved # <<>>) =>
        LET from == ctx.moved[1]
            to   == ctx.moved[2]
            id   == loaded.featurePageIds[from]
        IN  /\ Cardinality({ i \in LogIdx : log[i].op = "pages.update" /\ log[i].id = id }) = 1
            /\ pages[id].status = StatusOfPath(to)
            /\ \A i \in LogIdx : log[i].op = "pages.create" => log[i].key \notin {from, to}
            /\ \A i \in LogIdx : log[i].op = "pages.archive" => log[i].id # id

(***************************************************************************)
(* C5  A card dragged to another status column.                            *)
(***************************************************************************)
\* C5: after the status of a synced card was changed on the remote side while
\* its file stayed where it is, the next run leaves the card with the status
\* of the file's folder.
C5_DraggedCardIsMovedBack ==
    RunSucceeded =>
        \A n \in 1..Len(features) :
            LET k == features[n].filePath IN
            (k \in DOMAIN loaded.featurePageIds /\ loaded.featurePageIds[k] \in ctx.dragged) =>
                pages[loaded.featurePageIds[k]].status = features[n].status

(***************************************************************************)
(* C6  At most one remote record per key.                                  *)
(***************************************************************************)
\* C6: after every successful run, every scanned key has at most one
\* non-archived remote feature record under the current group.
C6_AtMostOneRecordPerKey ==
    RunSucceeded => \A k \in ScanKeys : Cardinality(LiveRecordsOf(k)) <= 1

(***************************************************************************)
(* C7  The title+group search as fallback.                                 *)
(***************************************************************************)
\* C7: a feature create call is issued only when no remote feature record
\* with the record's title exists under the current group (such a record is
\* resolved by the title+group search and updated instead).
C7_CreateOnlyWhenSearchFindsNothing ==
    \A i \in LogIdx :
        (log[i].op = "pages.create" /\ log[i].key # ProjectKey) => ~log[i].dup

(***************************************************************************)
(* C8, C9  A failing create or update.                                     *)
(***************************************************************************)
FailedFeatureWrites == { i \in LogIdx : FeatureWrite(log[i]) /\ ~log[i].ok }

PositionOf(k) == CHOOSE n \in 1..Len(features) : features[n].filePath = k

\* C8: when the create or update call of a record fails, every record after
\* it in the scan order is still processed and the deletion sweep still runs.
C8_FailureDoesNotAbortTheRun ==
    RunEnded =>
        \A i \in FailedFeatureWrites :
            /\ \A n \in 1..Len(features) :
                   n > PositionOf(log[i].key) => features[n].filePath \in DOMAIN results
            /\ swept

\* C9: when the create or update call of a record fails, the mapping file
\* after the run holds the resolved group id and every key whose record was
\* created or updated successfully in that run.
C9_FailureStillPersistsProgress ==
    (RunEnded /\ FailedFeatureWrites # {}) =>
        \A i \in LogIdx :
            (FeatureWrite(log[i]) /\ log[i].ok) =>
                /\ mappingFile.kind = "json"
                /\ log[i].key \in DOMAIN Persisted.featurePageIds
                /\ Persisted.projectPageId = mapping.projectPageId

(***************************************************************************)
(* C10  Missing environment settings.                                      *)
(***************************************************************************)
EnvMissing ==
    ~env.NOTION_TOKEN \/ ~env.NOTION_PROJECTS_DB_ID \/ ~env.NOTION_FEATURES_DB_ID

\* C10: with one of the three environment settings missing, a run ends with
\* exit code 1 and without any remote call, and without a read or a write of
\* the mapping file.
C10_MissingEnvExitsBeforeAnyCall ==
    EnvMissing =>
        /\ pc \in {"idle", "done"}
        /\ RunEnded => exitCode = 1
        /\ log = <<>>
        /\ io.reads = 0 /\ io.writes = 0
        /\ mappingFile = AbsentFile
        /\ \A i \in PageIds : pages[i].st = "free"

C10_Witness ==
    /\ RunEnded /\ exitCode = 1
    /\ env.NOTION_TOKEN /\ env.NOTION_PROJECTS_DB_ID /\ ~env.NOTION_FEATURES_DB_ID
    /\ DOMAIN files # {}

(***************************************************************************)
(* C11  Loading the mapping file fails soft.                               *)
(***************************************************************************)
\* the file holds an object with the group id, the timestamp and both tables
CompleteState(file) ==
    /\ file.kind = "json"
    /\ \A n \in {"projectPageId", "lastSync"} \cup TableNames : HasMember(file.text, n)

\* the run has loaded the mapping file and not yet written it
AfterLoad == pc \in {"project", "features", "save"}

\* C11, as stated: whatever the mapping file holds (nothing, text that is not
\* JSON, a JSON object that is not a complete sync state), loadMapping
\* returns the fresh empty state, and a run with a complete environment in
\* which no remote call failed does not fail.
C11_AnyFileLoadsAsEmptyState ==
    /\ (AfterLoad /\ ~CompleteState(mappingFile)) => loaded = EmptyMapping
    /\ (RunEnded /\ ~EnvMissing /\ NoCallFailed) => exitCode = 0

(***************************************************************************)
(* C12  Round trip of the mapping store.                                   *)
(***************************************************************************)
\* the <<path, value>> entries the file holds for table n
FileEntries(n) ==
    LET es == Member(mappingFile.text, n, <<>>)
    IN  { es[i] : i \in 1..Len(es) }

\* C12: loadMapping after saveMapping(S) returns the two tables, the group id
\* and the timestamp of S, and the file holds no entry that is not in S,
\* whatever it held before.
C12_RoundTrip ==
    pc = "reloaded" =>
        /\ loaded.featurePageIds = mapping.featurePageIds
        /\ loaded.contentHashes = mapping.contentHashes
        /\ loaded.projectPageId = mapping.projectPageId
        /\ loaded.lastSync = mapping.lastSync
        /\ \A e \in FileEntries("featurePageIds") :
              e[1] \in DOMAIN mapping.featurePageIds /\ mapping.featurePageIds[e[1]] = e[2]
        /\ \A e \in FileEntries("contentHashes") :
              e[1] \in DOMAIN mapping.contentHashes /\ mapping.contentHashes[e[1]] = e[2]

\* a state with entries in both tables was saved over a file that held an
\* entry which is not in it, and loaded again
C12_Witness ==
    /\ pc = "reloaded"
    /\ mapping.featurePageIds # <<>> /\ mapping.contentHashes # <<>>
    /\ \E k \in DOMAIN ctx.featurePageIds : k \notin DOMAIN mapping.featurePageIds
    /\ \E k \in DOMAIN ctx.contentHashes :
          k \in DOMAIN mapping.contentHashes /\ mapping.contentHashes[k] # ctx.contentHashes[k]

(***************************************************************************)
(* C13  The status comes from the folder.                                  *)
(***************************************************************************)
\* the folders a path goes through (all components but the file name)
FoldersOf(filePath) == { filePath[j] : j \in 1..Len(filePath) - 1 }

StatusOfFolder(f) ==
    statusFolders[CHOOSE i \in 1..Len(statusFolders) : statusFolders[i].folder = f].status

KnownFolders == { statusFolders[i].folder : i \in 1..Len(statusFolders) }

ProjectCalls(ops) == { i \in LogIdx : log[i].key = ProjectKey /\ log[i].op \in ops }

\* syncProject has run in this run
GroupResolutionDone ==
    pc \in {"features", "save"} \/ (pc = "done" /\ runs > 0 /\ ~EnvMissing)

\* C14: per run syncProject issues exactly one of update-group and
\* create-group; a create only after the persisted id was absent or its probe
\* failed and the name search returned no id; after a confirmed persisted id
\* neither a search nor a create; probe, search and write in this order.
C14_GroupResolutionOrder ==
    GroupResolutionDone =>
        /\ Cardinality(ProjectCalls({"pages.update", "pages.create"})) = 1
        /\ \A i \in ProjectCalls({"pages.create"}) :
              /\ \/ loaded.projectPageId = NoId
                 \/ \E j \in ProjectCalls({"pages.retrieve"}) :
                       j < i /\ log[j].id = loaded.projectPageId /\ ~log[j].ok
              /\ \E j \in ProjectCalls({"databases.query"}) : j < i /\ log[j].id = NoId
        /\ (\E j \in ProjectCalls({"pages.retrieve"}) : log[j].ok)
              => ProjectCalls({"databases.query", "pages.create"}) = {}
        /\ \A i \in ProjectCalls({"databases.query"}) :
              /\ \A j \in ProjectCalls({"pages.retrieve"}) : j < i
              /\ \A j \in ProjectCalls({"pages.update", "pages.create"}) : i < j
        /\ \A i \in ProjectCalls({"pages.update"}) :
              \/ \E j \in ProjectCalls({"pages.retrieve"}) :
                    j < i /\ log[j].ok /\ log[j].id = log[i].id
              \/ \E j \in ProjectCalls({"databases.query"}) :
                    j < i /\ log[j].id = log[i].id /\ log[i].id # NoId

\* a run in which the persisted group id failed its probe, the search found
\* nothing and the group was created
C14_Witness ==
    /\ GroupResolutionDone
    /\ loaded.projectPageId # NoId
    /\ \E j \in ProjectCalls({"pages.retrieve"}) : ~log[j].ok
    /\ \E j \in ProjectCalls({"databases.query"}) : log[j].ok /\ log[j].id = NoId
    /\ \E j \in ProjectCalls({"pages.create"}) : log[j].ok

(***************************************************************************)
(* C15  The phases of a run are ordered.                                   *)
(***************************************************************************)
\* the calls of the feature loop / of the deletion sweep
LoopCalls  == { i \in LogIdx : log[i].key # ProjectKey /\ log[i].op # "pages.archive" }
SweepCalls == { i \in LogIdx : log[i].op = "pages.archive" }

\* C15: within a run every call of the feature loop comes after all calls of
\* the group resolution, and every feature create or update carries as group
\* relation the id that the successful group write before it produced; every
\* archive call comes after all calls of the loop, when every scanned record
\* has its result; the mapping file is written at most once, only after the
\* sweep, and exactly once by the time the run ends normally (a run that
\* aborts writes nothing).
C15_PhasesInOrder ==
    InRun =>
        /\ \A i \in LoopCalls :
              /\ \A j \in ProjectCalls({"pages.retrieve", "databases.query",
                                        "pages.update", "pages.create"}) : j < i
              /\ FeatureWrite(log[i]) =>
                    /\ log[i].rel # NoId /\ log[i].rel = mapping.projectPageId
                    /\ \E j \in ProjectCalls({"pages.update", "pages.create"}) :
                          j < i /\ log[j].ok /\ log[j].id = log[i].rel
        /\ \A i \in SweepCalls :
              /\ AllResolved
              /\ \A j \in LoopCalls : j < i
        /\ io.writes <= 1
        /\ io.writes = 1 => swept /\ pc = "done"
        /\ pc = "save" => io.writes = 0
        /\ RunSucceeded => io.writes = 1
        /\ swept => AllResolved

\* a run that resolved the group, created a record, updated another,
\* archived a third and wrote the mapping file
C15_Witness ==
    /\ RunSucceeded /\ io.writes = 1
    /\ \E i \in LoopCalls : log[i].op = "pages.create" /\ log[i].ok
    /\ \E i \in LoopCalls : log[i].op = "pages.update" /\ log[i].ok
    /\ SweepCalls # {}

(***************************************************************************)
(* C16  The in-memory state after a successful syncFeature.                *)
(***************************************************************************)
\* the scanned record with key k
ScannedRecord(k) == features[CHOOSE i \in 1..Len(features) : features[i].filePath = k]

\* a successful call op for key k on page id is in the log
Succeeded(op, k, id) ==
    \E i \in LogIdx : log[i].op = op /\ log[i].key = k /\ log[i].id = id /\ log[i].ok

\* C16: once syncFeature has returned a result for a record in this run, the
\* in-memory state maps the record's key to the id of that result (the id
\* whose probe succeeded for 'unchanged', whose update and append succeeded
\* for 'updated', which the create returned for 'created') and to the
\* record's current fingerprint; after a create the id is not the one the
\* state held when the run started.
C16_StateFollowsTheResult ==
    InRun =>
        \A k \in DOMAIN results :
            LET id == results[k].pageId IN
            /\ id # NoId
            /\ Lookup(mapping.featurePageIds, k, NoId) = id
            /\ Lookup(mapping.contentHashes, k, NoHash) = ScannedRecord(k).hash
            /\ results[k].action = "unchanged" => Succeeded("pages.retrieve", k, id)
            /\ results[k].action = "updated" =>
                  /\ Succeeded("pages.update", k, id)
                  /\ Succeeded("blocks.children.append", k, id)
            /\ results[k].action = "created" =>
                  /\ Succeeded("pages.create", k, id)
                  /\ id # Lookup(loaded.featurePageIds, k, NoId)

\* a record whose persisted id is stale was created anew in this run
C16_Witness ==
    /\ InRun
    /\ \E k \in DOMAIN results :
          /\ results[k].action = "created"
          /\ Lookup(loaded.featurePageIds, k, NoId) # NoId
          /\ pages[loaded.featurePageIds[k]].st = "gone"
          /\ mapping.featurePageIds[k] = results[k].pageId

(***************************************************************************)
(* C17  A failed probe of an unchanged record.                             *)
(***************************************************************************)
\* the failed existence probes of feature records in this run
FailedProbes ==
    { i \in LogIdx : log[i].op = "pages.retrieve" /\ log[i].key # ProjectKey /\ ~log[i].ok }

\* C17, as stated: after the existence probe of an unchanged record's
\* persisted id has failed, no further call of the run has that id as its
\* target, and the next call for the record is the create.
C17_FailedIdIsNotATarget ==
    InRun =>
        \A i \in FailedProbes :
            /\ \A j \in LogIdx : j > i => log[j].id # log[i].id
            /\ (i + 1) \in LogIdx => log[i + 1].op = "pages.create"

(***************************************************************************)
(* C18  An update replaces the body.                                       *)
(***************************************************************************)
\* C18, as stated: when syncFeature has returned 'updated' for a record, the
\* body of its remote record is exactly the freshly rendered blocks.
C18_UpdateReplacesTheBody ==
    InRun =>
        \A k \in DOMAIN results :
            results[k].action = "updated" =>
                pages[results[k].pageId].blocks = RenderChildren(ScannedRecord(k))

(***************************************************************************)
(* C19  The property set of a create or update.                            *)
(***************************************************************************)
\* C19: every create or update of a feature record sends Name, Status and the
\* Project relation to the group of this run, and Priority (Complexity) exactly
\* when the local record has one; so after an update of a record without a
\* Priority (Complexity) the remote value is the one the page had when the
\* run started, and otherwise it is the local one.
C19_OptionalPropertiesOnlyWhenPresent ==
    InRun =>
        /\ \A i \in LogIdx :
              FeatureWrite(log[i]) =>
                  LET f == ScannedRecord(log[i].key) IN
                  /\ {"Name", "Status", "Project"} \subseteq log[i].props
                  /\ log[i].props \subseteq {"Name", "Status", "Project", "Priority",
                                            "Complexity"}
                  /\ "Priority" \in log[i].props <=> f.priority # ""
                  /\ "Complexity" \in log[i].props <=> f.complexity # ""
                  /\ log[i].rel = mapping.projectPageId
        /\ \A k \in DOMAIN results :
              results[k].action = "updated" =>
                  LET f  == ScannedRecord(k)
                      id == results[k].pageId IN
                  /\ pages[id].priority =
                        IF f.priority = "" THEN ctx.pages[id].priority ELSE f.priority
                  /\ pages[id].complexity =
                        IF f.complexity = "" THEN ctx.pages[id].complexity
                        ELSE f.complexity

\* a record without a Priority was updated on a page that has one
C19_Witness ==
    /\ InRun
    /\ \E k \in DOMAIN results :
          /\ results[k].action = "updated"
          /\ ScannedRecord(k).priority = "" /\ ScannedRecord(k).complexity # ""
          /\ pages[results[k].pageId].priority = "High"
          /\ ctx.pages[results[k].pageId].complexity = ""

(***************************************************************************)
(* C20  The fast path does not repair the group relation.                  *)
(***************************************************************************)
\* the group of this run is not the one the mapping file named
GroupReResolved ==
    /\ loaded.projectPageId # NoId
    /\ mapping.projectPageId # NoId
    /\ mapping.projectPageId # loaded.projectPageId

\* C20: in a run that resolves the group to another id than the persisted
\* one, a record that takes the fast path (fingerprint unchanged, remote
\* record there, existence probe succeeded) gets no update or other write,
\* and its remote record keeps the group relation it had when the run
\* started.
C20_FastPathKeepsOldGroup ==
    (InRun /\ GroupReResolved) =>
        \A k \in DOMAIN results :
            (FingerprintUnchanged(k) /\ ProbeSucceeds(k)) =>
                LET id == results[k].pageId IN
                /\ results[k].action = "unchanged"
                /\ \A i \in LogIdx : log[i].key = k => ~FeatureMutation(log[i])
                /\ pages[id].project = ctx.pages[id].project

\* the group was created anew in this run and an unchanged record of the old
\* group took the fast path
C20_Witness ==
    /\ RunSucceeded /\ GroupReResolved
    /\ \E k \in DOMAIN results :
          /\ FingerprintUnchanged(k) /\ ProbeSucceeds(k)
          /\ results[k].action = "unchanged"
          /\ pages[results[k].pageId].project = loaded.projectPageId
          /\ pages[results[k].pageId].project # mapping.projectPageId

(***************************************************************************)
(* C21  The persisted tables have exactly the keys of the scan.            *)
(***************************************************************************)
\* the feature files with a title line that are in the tree
TitledFiles == { p \in DOMAIN files : files[p].title # "" }

\* C21: after a run that ended normally the mapping file holds both tables,
\* and the key set of featurePageIds and the key set of contentHashes are
\* both the set of paths of the scan of that run, which is the set of the
\* titled feature files in the tree.
C21_PersistedKeysAreTheScan ==
    RunSucceeded =>
        /\ mappingFile.kind = "json"
        /\ Persisted.tables = TableNames
        /\ DOMAIN Persisted.featurePageIds = ScanKeys
        /\ DOMAIN Persisted.contentHashes = ScanKeys
        /\ ScanKeys = TitledFiles

\* a run ended normally that scanned a file new to the mapping and no longer
\* found a file the mapping had
C21_Witness ==
    /\ RunSucceeded
    /\ \E k \in DOMAIN loaded.featurePageIds : k \notin ScanKeys
    /\ \E k \in ScanKeys : k \notin DOMAIN loaded.featurePageIds

(***************************************************************************)
(* C22  No create after an update that has taken effect.                   *)
(***************************************************************************)
\* a successful call that changed an existing remote record
EffectiveMutation(c) ==
    c.ok /\ c.op \in {"pages.update", "blocks.delete", "blocks.children.append"}

\* C22, as stated: within a run a create is issued for a record only if no
\* update of an existing remote record for its key has taken effect before;
\* after a successful pages.update no failure while listing, deleting or
\* appending blocks leads to a create for the same key.
C22_NoCreateAfterEffectiveUpdate ==
    InRun =>
        \A i \in LogIdx :
            (log[i].op = "pages.create" /\ log[i].key # ProjectKey) =>
                \A j \in LogIdx :
                    (j < i /\ log[j].key = log[i].key) => ~EffectiveMutation(log[j])

(***************************************************************************)
(* C23  The sweep leaves the records of the scan alone.                    *)
(***************************************************************************)
\* C23: every archive call of a run is issued for a key that is not in the
\* scan of the run, and its target is none of the ids that the run returned
\* for a scanned key (confirmed, updated or created).
C23_SweepSparesTheScan ==
    InRun =>
        \A i \in SweepCalls :
            /\ log[i].key \notin ScanKeys
            /\ log[i].key \in DOMAIN loaded.featurePageIds
            /\ \A k \in DOMAIN results : results[k].pageId # log[i].id
            /\ \A j \in LogIdx :
                  (log[j].key \in ScanKeys /\ log[j].ok) => log[j].id # log[i].id

\* a run confirmed one record, created another and archived the page of a
\* file that is gone
C23_Witness ==
    /\ InRun /\ swept
    /\ \E i \in SweepCalls : log[i].ok
    /\ \E k \in DOMAIN results : results[k].action = "unchanged"
    /\ \E k \in DOMAIN results : results[k].action = "created"

(***************************************************************************)
(* C24  One group per project name.                                        *)
(***************************************************************************)
\* the groups with the project's name that exist on the remote side
GroupsOfProject == ProjectMatches(pages, ProjectName)

\* C24, as stated: over any sequence of runs, also when the name search
\* fails, at most one remote group with the project's name exists, and a
\* group is created only when none exists.
C24_AtMostOneGroup ==
    Cardinality(GroupsOfProject) <= 1

====
